---------------------------- MODULE Spec2Model ----------------------------
(***************************************************************************)
(* Momentum scoring and intervention engine of bee-mvp.                    *)
(*                                                                         *)
(* The score calculator and its HTTP surface are the in-memory             *)
(* implementation of src/tests/conftest.py (_FakeSupabaseClient,           *)
(* _calc_score, _install_requests._post).  The intervention rule engine    *)
(* is an Edge Function whose source is not part of src/; it is modelled    *)
(* from the specification and writes through the same table primitive.     *)
(***************************************************************************)
EXTENDS Integers, Sequences, FiniteSets, Bags, TLC

(***************************************************************************)
(* Bounds of the model.                                                    *)
(***************************************************************************)
MaxEvents == 2
MaxBatch == 2
MaxHist == 6
MaxTicks == 1
MaxDayEvents == 6
MaxPrior == 9
MaxLogs == 2          \* calls of log_momentum_error in a run
MaxClock == 2         \* steps of the clock in a run
MaxUsers == 3         \* rows of auth.users
MaxBatchSize == 2     \* the largest --batch-size
MaxAge == 100         \* the oldest historical score, in days

(***************************************************************************)
(* Identifiers.  "u1" and "u2" stand for canonical lower-case UUID         *)
(* strings, "U1" for the upper-case spelling of u1 (uuid.UUID parses it,   *)
(* str() of the parse differs), "invalid-uuid" for a string uuid.UUID      *)
(* rejects.                                                                *)
(***************************************************************************)
NIL_UUID == "00000000-0000-0000-0000-000000000000"
NoneVal == "None"
ParseError == "<ValueError>"
CanonicalUsers == {"u1", "u2"}
AllIds == CanonicalUsers \cup {"U1", NIL_UUID, "invalid-uuid", NoneVal}

\* uuid.UUID(str(val)) followed by str(): the canonical spelling, or ValueError.
UuidParse(val) ==
    CASE val \in CanonicalUsers -> val
      [] val = "U1" -> "u1"
      [] val = NIL_UUID -> NIL_UUID
      [] OTHER -> ParseError

IsUuidAcceptAll(val) == TRUE
IsUuid(val) ==
    IF UuidParse(val) = ParseError
    THEN FALSE
    ELSE UuidParse(val) = val /\ val # NIL_UUID

(***************************************************************************)
(* Dates are ISO strings in the program, compared as strings; the model    *)
(* numbers the days.                                                       *)
(***************************************************************************)
Dates == {1, 2}
TodayDate == CHOOSE d \in Dates : \A e \in Dates : e <= d
\* body["target_date"]: a date, an unparseable string, None, or no such key
NoDay == 0
TargetInputs ==
    [kind : {"date"}, day : Dates]
        \cup [kind : {"invalid", "none", "absent"}, day : {NoDay}]

\* body.get("target_date", date.today().isoformat())
TargetOf(t) == IF t.kind = "absent" THEN [kind |-> "date", day |-> TodayDate] ELSE t

EVENT_POINTS ==
    [lesson_completion |-> 15, journal_entry |-> 10, app_session |-> 3,
     coach_interaction |-> 20, streak_milestone |-> 25, goal_setting |-> 10]

\* _EVENT_POINTS.get(et, 0)
PointsOf(et) == IF et \in DOMAIN EVENT_POINTS THEN EVENT_POINTS[et] ELSE 0

\* The event rows the bounded runs insert.
EventUsers == CanonicalUsers
EventTypes == {"streak_milestone"}
EventKeys == [user_id : EventUsers, event_date : Dates, event_type : EventTypes]

States == {"Rising", "Steady", "NeedsCare"}

VARIABLES
    events,          \* engagement_events: event row -> number of such rows
    scores,          \* daily_engagement_scores: the bag of rows (no reader depends
                     \* on the order of the list)
    resp,            \* the response of the last request
    calculated,      \* history: the (user, date) pairs _calc_score returned for
    replaced,        \* history: the rows the last request's upserts dropped
    notifications,   \* momentum_notifications: the bag of rows
    interventions,   \* coach_interventions: the bag of rows
    rate_limits,     \* intervention_rate_limits: the (user, rule, day) entries
    today,           \* the current day, the rate-limit window
    trigger_queue,   \* the users whose score write has fired the trigger
    pc,              \* per evaluation: "idle", "acquire" or "emit"
    job,             \* per evaluation: user, day, history and rules left
    done,            \* per evaluation: the result of its last run
    results,         \* the result list of the last all-users evaluation
    calc_out,        \* the row (and its breakdown) _calc_score returned last
    daily_scores,    \* _MemDB.daily_scores: (user, date) -> id
    cursor,          \* _FakeCursor: the rows of the last execute, or its error
    error_logs,      \* _MemDB.error_logs: error id -> entry
    ids_drawn,       \* the number of error ids uuid4 has drawn
    now,             \* the clock, in days
    auth_users,      \* auth.users: the user ids
    bf,              \* process_day: its arguments, locals and position
    workers,         \* concurrent _calc_score calls: position and local row
    decay            \* a historical score, its age and its decayed value

calcVars == <<events, resp, calculated, replaced, calc_out>>
engineVars ==
    <<notifications, interventions, rate_limits, today, trigger_queue, pc, job,
      done, results>>
dbVars == <<daily_scores, cursor>>
logVars == <<error_logs, ids_drawn, now>>
backfillVars == <<auth_users, bf>>
auxVars == <<logVars, backfillVars, workers, decay>>
vars == <<scores, calcVars, engineVars, dbVars, auxVars>>

Min(a, b) == IF a < b THEN a ELSE b

RECURSIVE SumOver(_, _)
SumOver(f, S) ==
    IF S = {} THEN 0
    ELSE LET x == CHOOSE y \in S : TRUE IN f[x] + SumOver(f, S \ {x})

(***************************************************************************)
(* _calc_score                                                             *)
(***************************************************************************)
\* number of event rows of one user, date and type
ByType(evs, user_id, tgt, et) ==
    LET k == [user_id |-> user_id, event_date |-> tgt, event_type |-> et]
    IN IF k \in DOMAIN evs THEN evs[k] ELSE 0

\* the loop of lines 131-135 for one type: the i-th event of a type adds its
\* points while the running count is at most 5
RECURSIVE PtsLoop(_, _, _, _)
PtsLoop(et, n, i, acc) ==
    IF i > n THEN acc
    ELSE PtsLoop(et, n, i + 1, IF i <= 5 THEN acc + PointsOf(et) ELSE acc)

PtsByTypeUncapped(evs, user_id, tgt, et) ==
    ByType(evs, user_id, tgt, et) * PointsOf(et)
PtsByType(evs, user_id, tgt, et) == PtsLoop(et, ByType(evs, user_id, tgt, et), 1, 0)

TypesOf(evs) == {k.event_type : k \in DOMAIN evs}

EventsCount(evs, user_id, tgt) ==
    SumOver([et \in TypesOf(evs) |-> ByType(evs, user_id, tgt, et)], TypesOf(evs))

RawScoreUnclamped(evs, user_id, tgt) ==
    SumOver([et \in TypesOf(evs) |-> PtsByType(evs, user_id, tgt, et)], TypesOf(evs))
RawScore(evs, user_id, tgt) ==
    Min(SumOver([et \in TypesOf(evs) |-> PtsByType(evs, user_id, tgt, et)],
                TypesOf(evs)), 100)

\* the rows of a table that pass a test, and their number
Select(tbl, Test(_)) == [r \in {x \in DOMAIN tbl : Test(x)} |-> tbl[r]]
Count(tbl, Test(_)) == BagCardinality(Select(tbl, Test))

\* _FakeQuery.execute, action "insert": one more row
Insert(tbl, row) == tbl (+) SetToBag({row})

\* the number of rows of a (user, date)
RowsOf(tbl, u, d) ==
    LET Key(r) == r.user_id = u /\ r.score_date = d IN Count(tbl, Key)

\* rows of the user dated before the target
HistoryThroughTarget(tbl, user_id, tgt) ==
    LET UpTo(r) == r.user_id = user_id /\ r.score_date <= tgt
    IN Select(tbl, UpTo)
History(tbl, user_id, tgt) ==
    LET Before(r) == r.user_id = user_id /\ r.score_date < tgt
    IN Select(tbl, Before)

FinalScoreUnclamped(raw, history) == raw + 5 * BagCardinality(history)
FinalScore(raw, history) == Min(raw + 5 * BagCardinality(history), 100)

ClassifyLowerBoundary(final, history, tgt) ==
    LET naive == IF final <= 45 THEN "NeedsCare"
                 ELSE IF final <= 70 THEN "Steady" ELSE "Rising"
    IN IF (\E r \in DOMAIN history :
              r.score_date = tgt - 1 /\ r.momentum_state = "Rising")
          /\ final >= 68
       THEN "Rising"
       ELSE naive
ClassifyNoHysteresis(final, history, tgt) ==
    IF final < 45 THEN "NeedsCare" ELSE IF final < 70 THEN "Steady" ELSE "Rising"
Classify(final, history, tgt) ==
    LET naive == IF final < 45 THEN "NeedsCare"
                 ELSE IF final < 70 THEN "Steady" ELSE "Rising"
        yday == tgt - 1
    IN IF (\E r \in DOMAIN history :
              r.score_date = yday /\ r.momentum_state = "Rising")
          /\ final >= 68
       THEN "Rising"
       ELSE naive

ScoreRow(evs, tbl, user_id, tgt) ==
    LET raw == RawScore(evs, user_id, tgt)
        history == History(tbl, user_id, tgt)
        final == FinalScore(raw, history)
    IN [user_id |-> user_id, score_date |-> tgt, raw_score |-> raw,
        normalized_score |-> final, final_score |-> final,
        momentum_state |-> Classify(final, history, tgt),
        events_count |-> EventsCount(evs, user_id, tgt)]

\* the upsert of lines 195-201: drop the rows of the key, append the new one
UpsertNoDelete(tbl, row) == Insert(tbl, row)
Upsert(tbl, row) ==
    LET Other(r) == ~(r.user_id = row.user_id /\ r.score_date = row.score_date)
    IN Insert(Select(tbl, Other), row)

CalcScore(evs, tbl, user_id, tgt) ==
    LET row == ScoreRow(evs, tbl, user_id, tgt)
    IN [row |-> row, tbl |-> Upsert(tbl, row)]

(***************************************************************************)
(* The requests of _install_requests._post.  Every response is a record of *)
(* one shape; the fields a branch does not set keep the values of NoBody.  *)
(***************************************************************************)
NoBody ==
    [status |-> 0, kind |-> "none", success |-> FALSE, error |-> "",
     processed |-> 0, successful |-> 0, failed |-> 0, details |-> <<>>,
     user_id |-> "", target_date |-> [kind |-> "none", day |-> NoDay]]

Response(status, kind, fields) ==
    [f \in DOMAIN NoBody |->
        IF f = "status" THEN status
        ELSE IF f = "kind" THEN kind
        ELSE IF f \in DOMAIN fields THEN fields[f] ELSE NoBody[f]]

TotalEvents(evs) == SumOver(evs, DOMAIN evs)

\* table("engagement_events").insert(row).execute()
AddEvent(k) ==
    /\ TotalEvents(events) < MaxEvents
    /\ events' = [events EXCEPT ![k] = @ + 1]
    /\ resp' = Response(0, "insert", [success |-> TRUE])
    /\ replaced' = 0
    /\ UNCHANGED <<scores, calculated>>
    /\ UNCHANGED <<calc_out, engineVars, dbVars, auxVars>>

\* the url does not name the function
PostNotFound ==
    /\ resp' = Response(404, "not_found", <<>>)
    /\ replaced' = 0
    /\ UNCHANGED <<events, scores, calculated>>
    /\ UNCHANGED <<calc_out, engineVars, dbVars, auxVars>>

\* no bearer token
PostUnauthorized ==
    /\ resp' = Response(401, "unauthorized", <<>>)
    /\ replaced' = 0
    /\ UNCHANGED <<events, scores, calculated>>
    /\ UNCHANGED <<calc_out, engineVars, dbVars, auxVars>>

\* POST .../batch {user_ids: uids}
BatchResponsePartial(uids) ==
    LET Valid(u) == IsUuid(u)
    IN Response(200, "batch",
                [success |-> TRUE, processed |-> Len(SelectSeq(uids, Valid))])
BatchResponse(uids) ==
    IF \E i \in DOMAIN uids : ~IsUuid(uids[i])
    THEN Response(400, "batch", [success |-> FALSE, error |-> "validation_error"])
    ELSE Response(200, "batch", [success |-> TRUE, processed |-> Len(uids)])

PostBatch(uids) ==
    /\ resp' = BatchResponse(uids)
    /\ replaced' = 0
    /\ UNCHANGED <<events, scores, calculated>>
    /\ UNCHANGED <<calc_out, engineVars, dbVars, auxVars>>

\* POST .../health
PostHealth ==
    /\ resp' = Response(200, "health", [success |-> TRUE])
    /\ replaced' = 0
    /\ UNCHANGED <<events, scores, calculated>>
    /\ UNCHANGED <<calc_out, engineVars, dbVars, auxVars>>

\* the users with an event on the target date
ActiveUsersAnyDate(evs, tgt) == {k.user_id : k \in {e \in DOMAIN evs : evs[e] > 0}}
ActiveUsers(evs, tgt) ==
    {k.user_id : k \in {e \in DOMAIN evs : evs[e] > 0 /\ e.event_date = tgt}}

\* the loop of lines 239-243 over the users in the order the set yields them
RECURSIVE CalcEach(_, _, _, _, _)
CalcEach(evs, tbl, order, tgt, details) ==
    IF order = <<>> THEN [tbl |-> tbl, details |-> details]
    ELSE LET c == CalcScore(evs, tbl, Head(order), tgt)
         IN CalcEach(evs, c.tbl, Tail(order), tgt,
                     Append(details, [user_id |-> Head(order),
                                      final_score |-> c.row.final_score]))

Orders(S) ==
    {o \in [1..Cardinality(S) -> S] : \A i, j \in DOMAIN o : i # j => o[i] # o[j]}

\* POST {calculate_all_users: true, target_date: t}
PostCalculateAll(t) ==
    LET tgt == TargetOf(t)
        users == IF tgt.kind = "date" THEN ActiveUsers(events, tgt.day) ELSE {}
    IN \E order \in Orders(users) :
          LET run == CalcEach(events, scores, order, tgt.day, <<>>)
          IN /\ scores' = run.tbl
             /\ calculated' = calculated \cup {<<u, tgt.day>> : u \in users}
             /\ replaced' = BagCardinality(scores) + Cardinality(users)
                                - BagCardinality(run.tbl)
             /\ resp' = Response(200, "calculate_all",
                                 [success |-> TRUE, target_date |-> tgt,
                                  successful |-> Cardinality(users), failed |-> 0,
                                  details |-> run.details])
             /\ UNCHANGED <<events, calc_out, engineVars, dbVars, auxVars>>

\* POST {user_id: uid, target_date: t}
PostSingle(uid, t) ==
    LET tgt == TargetOf(t)
    IN /\ UNCHANGED events
       /\ IF uid = NoneVal \/ tgt.kind = "none"
          THEN /\ resp' = Response(400, "single", [error |-> "missing_parameters"])
               /\ replaced' = 0
               /\ UNCHANGED <<scores, calculated>>
          ELSE IF ~IsUuid(uid) \/ tgt.kind = "invalid"
          THEN /\ resp' = Response(400, "single", <<>>)
               /\ replaced' = 0
               /\ UNCHANGED <<scores, calculated>>
          ELSE LET c == CalcScore(events, scores, uid, tgt.day)
               IN /\ scores' = c.tbl
                  /\ calculated' = calculated \cup {<<uid, tgt.day>>}
                  /\ replaced' = BagCardinality(scores) + 1 - BagCardinality(c.tbl)
                  /\ resp' = Response(200, "single",
                                      [success |-> TRUE, user_id |-> uid,
                                       target_date |-> tgt])
       /\ UNCHANGED <<calc_out, engineVars, dbVars, auxVars>>

BatchIds == {"u1", "invalid-uuid"}
BatchInputs == UNION {[1..n -> BatchIds] : n \in 0..MaxBatch}

(***************************************************************************)
(* The intervention rule engine (the momentum-intervention-engine Edge     *)
(* Function and the trigger on daily_engagement_scores).  Its source is    *)
(* not in src/: the rules, the rate limiter and the trigger follow the     *)
(* specification, the tables are those of _FakeSupabaseClient.             *)
(***************************************************************************)
Procs == {"demand", "trigger"}
Rules == <<"consecutive_needs_care", "score_drop", "celebration",
           "consistency_reminder">>

CONSECUTIVE_DAYS == 2
SCORE_DROP_THRESHOLD == 20
SCORE_DROP_DAYS == 3
CELEBRATION_DAYS == 5
CELEBRATION_RISING == 4
CONSISTENCY_DAYS == 7
CONSISTENCY_CHANGES == 4

\* the rows of a user, most recent first
RECURSIVE SortDesc(_)
SortDesc(S) ==
    IF S = {} THEN <<>>
    ELSE LET m == CHOOSE r \in S : \A q \in S : q.score_date <= r.score_date
         IN <<m>> \o SortDesc(S \ {m})

Recent(tbl, u, n) ==
    LET all == SortDesc({r \in DOMAIN tbl : r.user_id = u})
    IN SubSeq(all, 1, Min(n, Len(all)))

ConsecutiveNeedsCareLatestOnly(h) ==
    /\ Len(h) >= 1
    /\ h[1].momentum_state = "NeedsCare"
ConsecutiveNeedsCare(h) ==
    /\ Len(h) >= CONSECUTIVE_DAYS
    /\ \A i \in 1..CONSECUTIVE_DAYS : h[i].momentum_state = "NeedsCare"

ScoreDropStrict(h) ==
    /\ Len(h) >= SCORE_DROP_DAYS
    /\ h[SCORE_DROP_DAYS].final_score - h[1].final_score > SCORE_DROP_THRESHOLD
ScoreDrop(h) ==
    /\ Len(h) >= SCORE_DROP_DAYS
    /\ h[SCORE_DROP_DAYS].final_score - h[1].final_score >= SCORE_DROP_THRESHOLD

CelebrationAnyCurrent(h) ==
    /\ Len(h) >= 1
    /\ Cardinality({i \in 1..Min(CELEBRATION_DAYS, Len(h)) :
                       h[i].momentum_state = "Rising"}) >= CELEBRATION_RISING
Celebration(h) ==
    /\ Len(h) >= 1
    /\ h[1].momentum_state = "Rising"
    /\ Cardinality({i \in 1..Min(CELEBRATION_DAYS, Len(h)) :
                       h[i].momentum_state = "Rising"}) >= CELEBRATION_RISING

ConsistencyReminderThree(h) ==
    Cardinality({i \in 1..(Min(CONSISTENCY_DAYS, Len(h)) - 1) :
                    h[i].momentum_state # h[i + 1].momentum_state})
        >= CONSISTENCY_CHANGES - 1
ConsistencyReminder(h) ==
    Cardinality({i \in 1..(Min(CONSISTENCY_DAYS, Len(h)) - 1) :
                    h[i].momentum_state # h[i + 1].momentum_state})
        >= CONSISTENCY_CHANGES

RuleHolds(r, h) ==
    CASE r = "consecutive_needs_care" -> ConsecutiveNeedsCare(h)
      [] r = "score_drop" -> ScoreDrop(h)
      [] r = "celebration" -> Celebration(h)
      [] r = "consistency_reminder" -> ConsistencyReminder(h)

\* the rules whose condition holds on a history, in the order of the rule set
Matched(h) == LET Holds(r) == RuleHolds(r, h) IN SelectSeq(Rules, Holds)

ActionOf(r) ==
    CASE r = "consecutive_needs_care" -> "unspecified"
      [] r = "score_drop" -> "complete_lesson"
      [] r = "celebration" -> "view_momentum"
      [] r = "consistency_reminder" -> "journal_entry"

NotificationRow(u, r, w) ==
    [user_id |-> u, notification_type |-> r, trigger_date |-> w,
     action_type |-> ActionOf(r), status |-> "pending"]

InterventionRow(u, w, state) ==
    [user_id |-> u, intervention_type |-> "automated_call_schedule",
     trigger_date |-> w, trigger_reason |-> "consecutive_needs_care",
     trigger_momentum_state |-> state, priority |-> "high",
     status |-> "scheduled"]

\* the rate limiter: one entry per (user, rule, day); acquiring is one atomic
\* insert-with-gate
LimitKeyUserOnly(u, r, w) == [user_id |-> u, rule |-> "", window |-> w]
LimitKey(u, r, w) == [user_id |-> u, rule |-> r, window |-> w]
TryAcquireAlways(rl, u, r, w) == TRUE
TryAcquire(rl, u, r, w) == LimitKey(u, r, w) \notin rl
AcquireNoEntry(rl, u, r, w) == rl
AcquireEntry(rl, u, r, w) == rl \cup {LimitKey(u, r, w)}

EmitNotification(tbl, u, r, w) == Insert(tbl, NotificationRow(u, r, w))
EmitIntervention(tbl, u, r, w, state) ==
    IF r = "consecutive_needs_care"
    THEN Insert(tbl, InterventionRow(u, w, state))
    ELSE tbl

\* one evaluation run to its end: every matched rule the limiter admits emits
RECURSIVE RunRules(_, _, _, _, _)
RunRules(db, u, w, state, todo) ==
    IF todo = <<>> THEN db
    ELSE LET r == Head(todo)
         IN IF TryAcquire(db.rl, u, r, w)
            THEN RunRules([rl |-> AcquireEntry(db.rl, u, r, w),
                           notif |-> EmitNotification(db.notif, u, r, w),
                           interv |-> EmitIntervention(db.interv, u, r, w, state),
                           count |-> db.count + 1],
                          u, w, state, Tail(todo))
            ELSE RunRules(db, u, w, state, Tail(todo))

\* evaluate_rules(uid) against the tables db: an id that is no user id is a
\* no-op, a user without rows matches nothing
EvaluateUser(db, tbl, uid, w) ==
    LET h == Recent(tbl, uid, CONSISTENCY_DAYS)
    IN IF ~IsUuid(uid) \/ h = <<>>
       THEN [db EXCEPT !.count = 0]
       ELSE RunRules([db EXCEPT !.count = 0], uid, w, h[1].momentum_state,
                     Matched(h))

NoJob == [user |-> "", win |-> 0, state |-> "", todo |-> <<>>, cur |-> "",
          count |-> 0, matched |-> <<>>]
NoResult == [status |-> 0, success |-> FALSE, interventions_triggered |-> 0,
             user |-> "", win |-> 0, matched |-> <<>>]

EngineIdle ==
    /\ notifications = EmptyBag
    /\ interventions = EmptyBag
    /\ rate_limits = {}
    /\ trigger_queue = <<>>
    /\ pc = [p \in Procs |-> "idle"]
    /\ job = [p \in Procs |-> NoJob]
    /\ done = [p \in Procs |-> NoResult]
    /\ results = <<>>

\* no call of _calc_score yet
NoOut == [row |-> <<>>, breakdown |-> <<>>]

\* _MemDB as the class body leaves it, and a cursor before its first execute
NoCursor == [rows |-> <<>>, error |-> ""]
DbIdle ==
    /\ daily_scores = <<>>
    /\ cursor = NoCursor

\* no error logged, no id drawn
LogIdle ==
    /\ error_logs = <<>>
    /\ ids_drawn = 0
    /\ now = 0

\* process_day not called
NoRun == [pc |-> "idle", dry_run |-> FALSE, batch_size |-> 0, offset |-> 0,
          total_inserted |-> 0, inserted |-> 0, returned |-> 0,
          missing_before |-> {}]
BackfillIdle ==
    /\ auth_users = {}
    /\ bf = NoRun

\* no concurrent call of _calc_score
WorkerIds == {"w1", "w2"}
NoWorker == [pc |-> "idle", row |-> <<>>]
WorkersIdle == workers = [w \in WorkerIds |-> NoWorker]

\* no decay computed
NoDecay == [base_score |-> 0, days_ago |-> 0, decay_factor |-> 0,
            decayed_score |-> 0]
DecayIdle == decay = NoDecay

AuxIdle ==
    /\ LogIdle
    /\ BackfillIdle
    /\ WorkersIdle
    /\ DecayIdle

Init ==
    /\ events = [k \in EventKeys |-> 0]
    /\ scores = EmptyBag
    /\ resp = NoBody
    /\ calculated = {}
    /\ replaced = 0
    /\ calc_out = NoOut
    /\ EngineIdle
    /\ DbIdle
    /\ AuxIdle
    /\ today = TodayDate

Next ==
    \/ \E k \in EventKeys : AddEvent(k)
    \/ PostNotFound
    \/ PostUnauthorized
    \/ \E uids \in BatchInputs : PostBatch(uids)
    \/ PostHealth
    \/ \E t \in TargetInputs : PostCalculateAll(t)
    \/ \E uid \in AllIds, t \in TargetInputs : PostSingle(uid, t)

Spec == Init /\ [][Next]_vars

(***************************************************************************)
(* Rule evaluation, one request at a time, over enumerated score           *)
(* histories.  A history is given most recent day first; its rows are      *)
(* dated TEST_DAY, TEST_DAY - 1, ... without gaps, as the histories of     *)
(* test_intervention_engine.py are.                                        *)
(***************************************************************************)
TEST_DAY == 15

HistoryRow(u, d, score, state) ==
    [user_id |-> u, score_date |-> d, raw_score |-> score,
     normalized_score |-> score, final_score |-> score,
     momentum_state |-> state, events_count |-> 5]

Samples ==
    {[score |-> 40, state |-> "NeedsCare"], [score |-> 50, state |-> "Steady"],
     [score |-> 70, state |-> "Rising"]}

SampleHistories == UNION {[1..n -> Samples] : n \in 0..MaxHist}

\* the rows _create_momentum_history inserts for a history
HistoryRows(u, h) ==
    SetToBag({HistoryRow(u, TEST_DAY - i + 1, h[i].score, h[i].state) :
                 i \in DOMAIN h})

\* rows stored under an id that is no user id: two NeedsCare days
StrayHistory ==
    <<[score |-> 40, state |-> "NeedsCare"], [score |-> 40, state |-> "NeedsCare"]>>

EvalIds == {"u1", "u2", "invalid-uuid", NoneVal}

CalcIdle ==
    /\ events = [k \in EventKeys |-> 0]
    /\ resp = NoBody
    /\ calculated = {}
    /\ replaced = 0
    /\ calc_out = NoOut
    /\ DbIdle
    /\ AuxIdle

InitRules ==
    /\ CalcIdle
    /\ EngineIdle
    /\ today = TEST_DAY
    /\ \E h \in SampleHistories :
          scores = HistoryRows("u1", h) (+) HistoryRows("invalid-uuid", StrayHistory)

Tables == [rl |-> rate_limits, notif |-> notifications, interv |-> interventions,
           count |-> 0]

\* POST momentum-intervention-engine {user_id: uid}
Evaluate(uid) ==
    /\ \A p \in Procs : pc[p] = "idle"
    /\ IF uid = NoneVal
       THEN /\ done' = [done EXCEPT !["demand"] =
                           [NoResult EXCEPT !.status = 400]]
            /\ UNCHANGED <<rate_limits, notifications, interventions>>
       ELSE LET db == EvaluateUser(Tables, scores, uid, today)
                h == Recent(scores, uid, CONSISTENCY_DAYS)
            IN /\ rate_limits' = db.rl
               /\ notifications' = db.notif
               /\ interventions' = db.interv
               /\ done' = [done EXCEPT !["demand"] =
                              [status |-> 200, success |-> TRUE,
                               interventions_triggered |-> db.count,
                               user |-> uid, win |-> today,
                               matched |-> IF IsUuid(uid) THEN Matched(h)
                                           ELSE <<>>]]
    /\ UNCHANGED <<scores, calcVars, dbVars, auxVars, today, trigger_queue, pc, job, results>>

\* the users with a score for the day
ScoredUsers(tbl, d) == {r.user_id : r \in {x \in DOMAIN tbl : x.score_date = d}}

RECURSIVE EvaluateEach(_, _, _, _, _)
EvaluateEach(db, tbl, order, w, out) ==
    IF order = <<>> THEN [db |-> db, out |-> out]
    ELSE LET next == EvaluateUser(db, tbl, Head(order), w)
         IN EvaluateEach(next, tbl, Tail(order), w,
                         Append(out, [user_id |-> Head(order),
                                      interventions_triggered |-> next.count]))

\* POST momentum-intervention-engine {check_all_users: true}
EvaluateAll ==
    /\ \A p \in Procs : pc[p] = "idle"
    /\ \E order \in Orders(ScoredUsers(scores, today)) :
          LET run == EvaluateEach(Tables, scores, order, today, <<>>)
          IN /\ rate_limits' = run.db.rl
             /\ notifications' = run.db.notif
             /\ interventions' = run.db.interv
             /\ results' = run.out
    /\ UNCHANGED <<scores, calcVars, dbVars, auxVars, today, trigger_queue, pc, job, done>>

NextRules ==
    \/ \E uid \in EvalIds : Evaluate(uid)
    \/ EvaluateAll

SpecRules == InitRules /\ [][NextRules]_vars

(***************************************************************************)
(* Rule evaluation as it runs in production: the on-demand request and the *)
(* evaluation the score trigger starts are two activities whose steps      *)
(* (read the history, acquire the rate limit of a rule, write its records) *)
(* interleave, while days pass and new scores arrive.  The histories are   *)
(* those of test_intervention_engine.py; the row of the current day is     *)
(* inserted by InsertScore.                                                *)
(***************************************************************************)
NC(score) == [score |-> score, state |-> "NeedsCare"]
ST(score) == [score |-> score, state |-> "Steady"]
RI(score) == [score |-> score, state |-> "Rising"]

TestHistories ==
    {<<NC(30), NC(35), ST(60)>>,
     <<NC(30), ST(60), ST(65)>>,
     <<ST(50), ST(60), RI(70)>>,
     <<ST(60), ST(65), RI(70)>>,
     <<RI(75), RI(72), ST(60), RI(78), RI(80)>>,
     <<ST(60), RI(72), RI(75), RI(78), RI(80)>>,
     <<RI(75), NC(40), ST(60), NC(30), RI(70), ST(45), RI(80)>>,
     <<NC(30), NC(35)>>}

\* the rows a later day may bring
LaterSamples == {NC(30), RI(75)}

\* the rows of a history before its most recent day
PriorRows(u, h) ==
    SetToBag({HistoryRow(u, TEST_DAY - i + 1, h[i].score, h[i].state) :
                 i \in 2..Len(h)})

InitEngine ==
    /\ CalcIdle
    /\ EngineIdle
    /\ today = TEST_DAY
    /\ \E h \in TestHistories : scores = PriorRows("u1", h)

\* a new day
Tick ==
    /\ today < TEST_DAY + MaxTicks
    /\ today' = today + 1
    /\ UNCHANGED <<scores, calcVars, dbVars, auxVars, notifications, interventions, rate_limits,
                   trigger_queue, pc, job, done, results>>

\* the rows the current day may bring: on TEST_DAY the most recent row of the
\* test history whose earlier rows are stored
TodaySamples(u) ==
    IF today = TEST_DAY
    THEN {h[1] : h \in {g \in TestHistories : scores = PriorRows(u, g)}}
    ELSE LaterSamples

\* table("daily_engagement_scores").insert(row).execute() for the current
\* day; the trigger on the table queues an evaluation of the user
InsertScore(u, smp) ==
    /\ RowsOf(scores, u, today) = 0
    /\ scores' = Insert(scores, HistoryRow(u, today, smp.score, smp.state))
    /\ trigger_queue' = Append(trigger_queue, u)
    /\ UNCHANGED <<calcVars, dbVars, auxVars, notifications, interventions, rate_limits, today,
                   pc, job, done, results>>

\* an evaluation reads the day and the user's history
Begin(p, u) ==
    LET h == Recent(scores, u, CONSISTENCY_DAYS)
        m == IF ~IsUuid(u) \/ h = <<>> THEN <<>> ELSE Matched(h)
    IN /\ pc' = [pc EXCEPT ![p] = "acquire"]
       /\ job' = [job EXCEPT ![p] =
                     [user |-> u, win |-> today,
                      state |-> IF h = <<>> THEN "" ELSE h[1].momentum_state,
                      todo |-> m, cur |-> "", count |-> 0, matched |-> m]]

StartDemand(u) ==
    /\ pc["demand"] = "idle"
    /\ Begin("demand", u)
    /\ UNCHANGED <<scores, calcVars, dbVars, auxVars, notifications, interventions, rate_limits,
                   today, trigger_queue, done, results>>

StartTrigger ==
    /\ pc["trigger"] = "idle"
    /\ trigger_queue # <<>>
    /\ Begin("trigger", Head(trigger_queue))
    /\ trigger_queue' = Tail(trigger_queue)
    /\ UNCHANGED <<scores, calcVars, dbVars, auxVars, notifications, interventions, rate_limits,
                   today, done, results>>

\* the next matched rule asks the rate limiter
Acquire(p) ==
    /\ pc[p] = "acquire"
    /\ job[p].todo # <<>>
    /\ LET j == job[p]
           r == Head(j.todo)
       IN IF TryAcquire(rate_limits, j.user, r, j.win)
          THEN /\ rate_limits' = AcquireEntry(rate_limits, j.user, r, j.win)
               /\ job' = [job EXCEPT ![p].todo = Tail(j.todo), ![p].cur = r]
               /\ pc' = [pc EXCEPT ![p] = "emit"]
          ELSE /\ job' = [job EXCEPT ![p].todo = Tail(j.todo)]
               /\ UNCHANGED <<rate_limits, pc>>
    /\ UNCHANGED <<scores, calcVars, dbVars, auxVars, notifications, interventions, today,
                   trigger_queue, done, results>>

\* the admitted rule writes its records
Emit(p) ==
    /\ pc[p] = "emit"
    /\ LET j == job[p]
       IN /\ notifications' = EmitNotification(notifications, j.user, j.cur, j.win)
          /\ interventions' =
                 EmitIntervention(interventions, j.user, j.cur, j.win, j.state)
          /\ job' = [job EXCEPT ![p].count = j.count + 1, ![p].cur = ""]
    /\ pc' = [pc EXCEPT ![p] = "acquire"]
    /\ UNCHANGED <<scores, calcVars, dbVars, auxVars, rate_limits, today, trigger_queue, done,
                   results>>

\* no rule is left: the evaluation returns
Finish(p) ==
    /\ pc[p] = "acquire"
    /\ job[p].todo = <<>>
    /\ done' = [done EXCEPT ![p] =
                   [status |-> 200, success |-> TRUE,
                    interventions_triggered |-> job[p].count,
                    user |-> job[p].user, win |-> job[p].win,
                    matched |-> job[p].matched]]
    /\ pc' = [pc EXCEPT ![p] = "idle"]
    /\ job' = [job EXCEPT ![p] = NoJob]
    /\ UNCHANGED <<scores, calcVars, dbVars, auxVars, notifications, interventions, rate_limits,
                   today, trigger_queue, results>>

NextEngine ==
    \/ Tick
    \/ \E smp \in TodaySamples("u1") : InsertScore("u1", smp)
    \/ StartDemand("u1")
    \/ StartTrigger
    \/ \E p \in Procs : Acquire(p)
    \/ \E p \in Procs : Emit(p)
    \/ \E p \in Procs : Finish(p)

SpecEngine == InitEngine /\ [][NextEngine]_vars

(***************************************************************************)
(* _calc_score as a function of the day's events and the stored history:   *)
(* one user, one target day, every multiset of at most MaxDayEvents events *)
(* over the six event types, and up to MaxPrior earlier rows with or       *)
(* without a row for the day before.                                       *)
(***************************************************************************)
CalcUser == "u1"

DayEventKeys ==
    [user_id : {CalcUser}, event_date : {TEST_DAY}, event_type : DOMAIN EVENT_POINTS]

DayEvents ==
    {e \in [DayEventKeys -> 0..MaxDayEvents] : TotalEvents(e) <= MaxDayEvents}

\* the rows stored before the call: n rows on consecutive earlier days, the
\* latest of them either the day before the target with state yday, or (yday
\* "none") two days before it
PriorShapes ==
    {sh \in [n : 0..MaxPrior, yday : States \cup {"none"}] :
        sh.n = 0 => sh.yday = "none"}

PriorHistory(u, sh) ==
    LET first == IF sh.yday = "none" THEN TEST_DAY - 2 ELSE TEST_DAY - 1
    IN SetToBag({HistoryRow(u, first - i, 50,
                            IF i = 0 /\ sh.yday # "none" THEN sh.yday ELSE "Steady") :
                    i \in 0..(sh.n - 1)})

\* breakdown: total_events, events_by_type, points_by_type
Breakdown(evs, user_id, tgt) ==
    LET seen == {et \in TypesOf(evs) : ByType(evs, user_id, tgt, et) > 0}
    IN [total_events |-> EventsCount(evs, user_id, tgt),
        events_by_type |-> [et \in seen |-> ByType(evs, user_id, tgt, et)],
        points_by_type |-> [et \in seen |-> PtsByType(evs, user_id, tgt, et)]]

InitCalc ==
    /\ events \in DayEvents
    /\ \E sh \in PriorShapes : scores = PriorHistory(CalcUser, sh)
    /\ resp = NoBody
    /\ calculated = {}
    /\ replaced = 0
    /\ calc_out = NoOut
    /\ EngineIdle
    /\ DbIdle
    /\ AuxIdle
    /\ today = TEST_DAY

\* _calc_score(client, CalcUser, TEST_DAY)
Calculate ==
    /\ LET c == CalcScore(events, scores, CalcUser, TEST_DAY)
       IN /\ scores' = c.tbl
          /\ calc_out' = [row |-> c.row,
                          breakdown |-> Breakdown(events, CalcUser, TEST_DAY)]
    /\ UNCHANGED <<events, resp, calculated, replaced, engineVars, dbVars, auxVars>>

NextCalc == Calculate

SpecCalc == InitCalc /\ [][NextCalc]_vars

(***************************************************************************)
(* The psycopg2 stub: _FakeCursor.execute over _MemDB.  A statement either *)
(* returns, leaving its rows in the cursor, or raises psycopg2.Error; the  *)
(* model keeps the error of the last execute in cursor.error ("" if it     *)
(* returned).  uuid4 ids are numbered in the order they are drawn.         *)
(***************************************************************************)
NoResultRow == [success |-> FALSE, error_code |-> "", user_id |-> "", id |-> 0]
ResultRow(fields) ==
    [f \in DOMAIN NoResultRow |->
        IF f \in DOMAIN fields THEN fields[f] ELSE NoResultRow[f]]

\* SELECT safe_calculate_momentum_score(uid, t): t of kind "none" is a NULL
\* parameter, of kind "absent" a parameter tuple that ends before it
SafeCalculateResult(uid, t) ==
    IF ~IsUuid(uid)
    THEN ResultRow([success |-> FALSE, error_code |-> "INVALID_USER_ID"])
    ELSE IF t.kind \in {"none", "absent"}
    THEN ResultRow([success |-> FALSE, error_code |-> "INVALID_DATE"])
    ELSE ResultRow([success |-> TRUE, user_id |-> uid])

SafeCalculate(uid, t) ==
    /\ cursor' = [rows |-> <<SafeCalculateResult(uid, t)>>, error |-> ""]
    /\ UNCHANGED <<daily_scores, scores, calcVars, engineVars, auxVars>>

\* the parameters of INSERT INTO daily_engagement_scores
ScoreParams ==
    [uid : CanonicalUsers, sdate : Dates, raw : {0 - 10, 85},
     norm : {0 - 1, 0, 100, 101}, final : {75},
     state : States \cup {"InvalidState"}, events : {5}]

InsertRejectsNoKeyCheck(p) ==
    \/ p.raw < 0
    \/ ~(0 <= p.norm /\ p.norm <= 100)
    \/ p.state \notin {"Rising", "Steady", "NeedsCare"}
InsertRejectsNoStateCheck(p) ==
    \/ <<p.uid, p.sdate>> \in DOMAIN daily_scores
    \/ p.raw < 0
    \/ ~(0 <= p.norm /\ p.norm <= 100)
InsertRejects(p) ==
    \/ <<p.uid, p.sdate>> \in DOMAIN daily_scores
    \/ p.raw < 0
    \/ ~(0 <= p.norm /\ p.norm <= 100)
    \/ p.state \notin {"Rising", "Steady", "NeedsCare"}

\* INSERT INTO daily_engagement_scores ... [RETURNING id]
InsertDailyScore(p, returning) ==
    /\ IF InsertRejects(p)
       THEN /\ cursor' = [cursor EXCEPT !.error = "invalid scores"]
            /\ UNCHANGED daily_scores
       ELSE LET id == Cardinality(DOMAIN daily_scores) + 1
                key == <<p.uid, p.sdate>>
            IN /\ daily_scores' =
                     [k \in DOMAIN daily_scores \cup {key} |->
                         IF k = key THEN id ELSE daily_scores[k]]
               /\ cursor' = [rows |-> IF returning
                                      THEN <<ResultRow([id |-> id])>>
                                      ELSE cursor.rows,
                             error |-> ""]
    /\ UNCHANGED <<scores, calcVars, engineVars, auxVars>>

InitDb ==
    /\ CalcIdle
    /\ EngineIdle
    /\ scores = EmptyBag
    /\ today = TodayDate

NextDb ==
    \/ \E uid \in AllIds, t \in TargetInputs : SafeCalculate(uid, t)
    \/ \E p \in ScoreParams, returning \in BOOLEAN : InsertDailyScore(p, returning)

SpecDb == InitDb /\ [][NextDb]_vars

(***************************************************************************)
(* The error log of the psycopg2 stub: log_momentum_error,                 *)
(* resolve_momentum_error and cleanup_error_logs over _MemDB.error_logs.   *)
(* Parameter tuples are sequences, as execute receives them.  Time is in   *)
(* days; an entry carries the day it was logged (created_at, which the     *)
(* stub itself does not store) so that its age can be stated.              *)
(***************************************************************************)
RETENTION_DAYS == 90
ClockStep == RETENTION_DAYS \div 2 + 1
NoTime == 0 - 1
NoId == 0             \* the id of a call without parameters: None, no entry's id

\* the parameter tuples of log_momentum_error: none, and the ten parameters
\* of test_log_momentum_error
LogParams ==
    {<<>>,
     <<"validation_error", "TEST_ERROR", "msg", "{}", "u1", "test_function",
       "test_table", "INSERT", "{}", "high">>}

LogEntry(id, p) ==
    [id |-> id,
     error_type |-> IF Len(p) > 0 THEN p[1] ELSE "validation_error",
     error_code |-> IF Len(p) > 1 THEN p[2] ELSE "ERR",
     user_id |-> IF Len(p) > 4 THEN p[5] ELSE NoneVal,
     is_resolved |-> FALSE,
     severity |-> IF Len(p) > 0 THEN p[Len(p)] ELSE "low",
     resolved_at |-> NoTime,
     resolution_notes |-> NoneVal,
     created_at |-> now]

\* SELECT log_momentum_error(...)
LogError(p) ==
    /\ ids_drawn < MaxLogs
    /\ LET err_id == ids_drawn + 1
       IN /\ ids_drawn' = err_id
          /\ error_logs' =
                [k \in DOMAIN error_logs \cup {err_id} |->
                    IF k = err_id THEN LogEntry(err_id, p) ELSE error_logs[k]]
          /\ cursor' = [rows |-> <<[error_id |-> err_id]>>, error |-> ""]
    /\ UNCHANGED <<now, daily_scores, scores, calcVars, engineVars,
                   backfillVars, workers, decay>>

\* the parameter tuples of resolve_momentum_error
ResolveParams ==
    {<<>>} \cup {<<id>> : id \in 1..MaxLogs}
           \cup {<<id, "fixed">> : id \in 1..MaxLogs}

ResolveEntryNoTime(e, p) ==
    [e EXCEPT !.is_resolved = TRUE,
              !.resolution_notes = IF Len(p) > 1 THEN p[2] ELSE NoneVal]
ResolveEntry(e, p) ==
    [e EXCEPT !.is_resolved = TRUE,
              !.resolved_at = now,
              !.resolution_notes = IF Len(p) > 1 THEN p[2] ELSE NoneVal]

\* SELECT resolve_momentum_error(...)
ResolveError(p) ==
    /\ LET eid == IF Len(p) > 0 THEN p[1] ELSE NoId
           ok == eid \in DOMAIN error_logs
       IN /\ error_logs' =
                IF ok
                THEN [error_logs EXCEPT ![eid] = ResolveEntry(error_logs[eid], p)]
                ELSE error_logs
          /\ cursor' = [rows |-> <<[success |-> ok]>>, error |-> ""]
    /\ UNCHANGED <<ids_drawn, now, daily_scores, scores, calcVars, engineVars,
                   backfillVars, workers, decay>>

\* the entries cleanup_error_logs keeps
Kept(logs) == {k \in DOMAIN logs : ~logs[k].is_resolved}

\* SELECT cleanup_error_logs()
CleanupErrorLogs ==
    /\ LET before == Cardinality(DOMAIN error_logs)
           kept == Kept(error_logs)
       IN /\ error_logs' = [k \in kept |-> error_logs[k]]
          /\ cursor' = [rows |-> <<[deleted_count |->
                                       before - Cardinality(kept)]>>,
                        error |-> ""]
    /\ UNCHANGED <<ids_drawn, now, daily_scores, scores, calcVars, engineVars,
                   backfillVars, workers, decay>>

\* time passes
ClockTick ==
    /\ now < MaxClock * ClockStep
    /\ now' = now + ClockStep
    /\ UNCHANGED <<error_logs, ids_drawn, scores, calcVars, engineVars, dbVars,
                   backfillVars, workers, decay>>

InitLog ==
    /\ CalcIdle
    /\ EngineIdle
    /\ scores = EmptyBag
    /\ today = TodayDate

NextLog ==
    \/ \E p \in LogParams : LogError(p)
    \/ \E p \in ResolveParams : ResolveError(p)
    \/ CleanupErrorLogs
    \/ ClockTick

SpecLog == InitLog /\ [][NextLog]_vars

(***************************************************************************)
(* scripts/backfill_momentum_rows.py: process_day for the day TEST_DAY     *)
(* over auth.users and daily_engagement_scores.  Users are numbered.  One  *)
(* step of the loop is one INSERT statement; bf.missing_before keeps the   *)
(* users that had no row when process_day was called (history).           *)
(***************************************************************************)
BackfillUsers == 1..MaxUsers
BatchSizes == 1..MaxBatchSize

\* the row the INSERT statement writes
DefaultRow(u, d) ==
    [user_id |-> u, score_date |-> d, final_score |-> 0,
     momentum_state |-> "NeedsCare"]

\* the CTE "missing" without LIMIT and OFFSET, and _sql_count_missing
Missing(tbl, d) == {u \in auth_users : RowsOf(tbl, u, d) = 0}

\* LIMIT batch_size OFFSET offset over the m rows of "missing", which have no
\* ORDER BY: any rows of the number that is left after the offset
Batches(missing, batch_size, offset) ==
    LET m == Cardinality(missing)
        n == IF m <= offset THEN 0 ELSE Min(batch_size, m - offset)
    IN {B \in SUBSET missing : Cardinality(B) = n}

\* the test that ends the loop
LoopBreaksOnTotal(inserted, total_inserted, batch_size) ==
    total_inserted < batch_size
LoopBreaks(inserted, total_inserted, batch_size) == inserted < batch_size

\* process_day(client, TEST_DAY, dry_run, batch_size) up to its loop
StartProcessDay(dry_run, batch_size) ==
    /\ bf.pc = "idle"
    /\ LET count == Cardinality(Missing(scores, TEST_DAY))
       IN bf' = [NoRun EXCEPT !.pc = IF dry_run THEN "done" ELSE "loop",
                              !.dry_run = dry_run,
                              !.batch_size = batch_size,
                              !.returned = IF dry_run THEN count ELSE 0,
                              !.missing_before = Missing(scores, TEST_DAY)]
    /\ UNCHANGED <<scores, auth_users, calcVars, engineVars, dbVars, logVars,
                   workers, decay>>

\* one turn of the loop: the INSERT statement, the count, the test.  offset
\* never exceeds the number of users, each full batch having inserted
\* batch_size rows; the guard says so.
BatchStep ==
    /\ bf.pc = "loop"
    /\ bf.offset <= Cardinality(auth_users)
    /\ \E B \in Batches(Missing(scores, TEST_DAY), bf.batch_size, bf.offset) :
          LET inserted == Cardinality(B)
              total_inserted == bf.total_inserted + inserted
          IN /\ scores' = scores (+) SetToBag({DefaultRow(u, TEST_DAY) : u \in B})
             /\ bf' = IF LoopBreaks(inserted, total_inserted, bf.batch_size)
                      THEN [bf EXCEPT !.pc = "done",
                                      !.inserted = inserted,
                                      !.total_inserted = total_inserted,
                                      !.returned = total_inserted]
                      ELSE [bf EXCEPT !.inserted = inserted,
                                      !.total_inserted = total_inserted,
                                      !.offset = bf.offset + bf.batch_size]
    /\ UNCHANGED <<auth_users, calcVars, engineVars, dbVars, logVars, workers,
                   decay>>

InitBackfill ==
    /\ events = [k \in EventKeys |-> 0]
    /\ resp = NoBody
    /\ calculated = {}
    /\ replaced = 0
    /\ calc_out = NoOut
    /\ EngineIdle
    /\ DbIdle
    /\ LogIdle
    /\ WorkersIdle
    /\ DecayIdle
    /\ today = TEST_DAY
    /\ bf = NoRun
    /\ auth_users \in SUBSET BackfillUsers
    /\ \E have \in SUBSET auth_users, old \in SUBSET auth_users :
          scores = SetToBag({HistoryRow(u, TEST_DAY, 50, "Steady") : u \in have}
                            \cup {HistoryRow(u, TEST_DAY - 1, 50, "Steady") :
                                     u \in old})

NextBackfill ==
    \/ \E dry_run \in BOOLEAN, batch_size \in BatchSizes :
          StartProcessDay(dry_run, batch_size)
    \/ BatchStep

SpecBackfill == InitBackfill /\ [][NextBackfill]_vars

\* process_day runs to its return: the loop is sequential code
SpecBackfillLive == SpecBackfill /\ WF_vars(BatchStep)

(***************************************************************************)
(* The decay weight exp(-DECAY_FACTOR * days), DECAY_FACTOR = ln 2 / 10,   *)
(* that is 2^(-days / HALF_LIFE_DAYS), in fixed point: a weight is an      *)
(* integer number of millionths, rounded down.  TenthPowers[r + 1] is      *)
(* 2^(-r / 10) for the days r within one half-life; whole half-lives       *)
(* halve it.                                                               *)
(***************************************************************************)
HALF_LIFE_DAYS == 10
Scale == 1000000
TenthPowers ==
    <<1000000, 933032, 870550, 812252, 757858, 707106, 659753, 615572, 574349,
      535886>>

RECURSIVE Pow2(_)
Pow2(n) == IF n = 0 THEN 1 ELSE 2 * Pow2(n - 1)

DecayWeightStepped(days) == Scale \div Pow2(days \div HALF_LIFE_DAYS)
DecayWeight(days) ==
    TenthPowers[(days % HALF_LIFE_DAYS) + 1] \div Pow2(days \div HALF_LIFE_DAYS)

\* the scores the tests decay
BaseScores == {25, 50, 80, 100}

\* decayed_score = base_score * decay_factor, in millionths
Decayed(base_score, days_ago) ==
    [base_score |-> base_score, days_ago |-> days_ago,
     decay_factor |-> DecayWeight(days_ago),
     decayed_score |-> base_score * DecayWeight(days_ago)]

\* the same score one day older
OneMoreDay ==
    /\ decay.days_ago < MaxAge
    /\ decay' = Decayed(decay.base_score, decay.days_ago + 1)
    /\ UNCHANGED <<scores, calcVars, engineVars, dbVars, logVars, backfillVars,
                   workers>>

InitDecay ==
    /\ events = [k \in EventKeys |-> 0]
    /\ resp = NoBody
    /\ calculated = {}
    /\ replaced = 0
    /\ calc_out = NoOut
    /\ EngineIdle
    /\ DbIdle
    /\ LogIdle
    /\ BackfillIdle
    /\ WorkersIdle
    /\ scores = EmptyBag
    /\ today = TEST_DAY
    /\ \E b \in BaseScores : decay = Decayed(b, 0)

NextDecay == OneMoreDay

SpecDecay == InitDecay /\ [][NextDecay]_vars

(***************************************************************************)
(* Two calls of _calc_score(client, CalcUser, TEST_DAY) on two threads.    *)
(* A call computes its row from the events and the history it reads, then  *)
(* replaces the list of rows by the rows of other keys (the slice          *)
(* assignment of lines 195-200), then appends its row (line 201); the      *)
(* threads may be switched between these statements.                       *)
(***************************************************************************)
\* lines 123-194: the row, from what the call reads
ComputeRow(w) ==
    /\ workers[w].pc = "idle"
    /\ workers' = [workers EXCEPT ![w] =
                      [pc |-> "delete",
                       row |-> ScoreRow(events, scores, CalcUser, TEST_DAY)]]
    /\ UNCHANGED <<scores, calcVars, engineVars, dbVars, logVars, backfillVars,
                   decay>>

\* lines 195-200: drop the rows of the key
DeleteExisting(w) ==
    /\ workers[w].pc = "delete"
    /\ LET row == workers[w].row
           Other(r) == ~(r.user_id = row.user_id /\ r.score_date = row.score_date)
       IN scores' = Select(scores, Other)
    /\ workers' = [workers EXCEPT ![w].pc = "append"]
    /\ UNCHANGED <<calcVars, engineVars, dbVars, logVars, backfillVars, decay>>

\* line 201: append the row, and return
AppendNew(w) ==
    /\ workers[w].pc = "append"
    /\ scores' = Insert(scores, workers[w].row)
    /\ workers' = [workers EXCEPT ![w].pc = "done"]
    /\ UNCHANGED <<calcVars, engineVars, dbVars, logVars, backfillVars, decay>>

\* the day's events of the concurrent calls: at most one event
ConcEvents == {e \in [DayEventKeys -> 0..1] : TotalEvents(e) <= 1}

InitConc ==
    /\ events \in ConcEvents
    /\ \E sh \in PriorShapes, stored \in BOOLEAN :
          scores = PriorHistory(CalcUser, sh)
                   (+) (IF stored
                        THEN SetToBag({HistoryRow(CalcUser, TEST_DAY, 50, "Steady")})
                        ELSE EmptyBag)
    /\ resp = NoBody
    /\ calculated = {}
    /\ replaced = 0
    /\ calc_out = NoOut
    /\ EngineIdle
    /\ DbIdle
    /\ AuxIdle
    /\ today = TEST_DAY

NextConc ==
    \/ \E w \in WorkerIds : ComputeRow(w)
    \/ \E w \in WorkerIds : DeleteExisting(w)
    \/ \E w \in WorkerIds : AppendNew(w)

SpecConc == InitConc /\ [][NextConc]_vars

(***************************************************************************)
(* Recalculation and the evaluation that follows it: the day's events      *)
(* grow, _calc_score(client, CalcUser, TEST_DAY) runs any number of times, *)
(* and the rules are evaluated over what is stored.  Before the first      *)
(* call the table holds a history of earlier days and may hold a row of    *)
(* the day itself and a row of the day after.                              *)
(***************************************************************************)
RecalcTypes == {"streak_milestone", "coach_interaction"}
RecalcKeys == {k \in DayEventKeys : k.event_type \in RecalcTypes}

\* one more event of the day
AddDayEvent(k) ==
    /\ TotalEvents(events) < MaxEvents
    /\ events' = [events EXCEPT ![k] = @ + 1]
    /\ UNCHANGED <<scores, resp, calculated, replaced, calc_out, engineVars,
                   dbVars, auxVars>>

\* the rows another writer left for the day and for the day after
StoredRow == HistoryRow(CalcUser, TEST_DAY, 50, "Steady")
LaterRow == HistoryRow(CalcUser, TEST_DAY + 1, 75, "Rising")

InitRecalc ==
    /\ events = [k \in DayEventKeys |-> 0]
    /\ \E h \in TestHistories, extra \in SUBSET {StoredRow, LaterRow} :
          scores = PriorRows(CalcUser, h) (+) SetToBag(extra)
    /\ resp = NoBody
    /\ calculated = {}
    /\ replaced = 0
    /\ calc_out = NoOut
    /\ EngineIdle
    /\ DbIdle
    /\ AuxIdle
    /\ today = TEST_DAY

NextRecalc ==
    \/ \E k \in RecalcKeys : AddDayEvent(k)
    \/ Calculate
    \/ Evaluate(CalcUser)

SpecRecalc == InitRecalc /\ [][NextRecalc]_vars

(***************************************************************************)
(* Rule evaluation for two users, each with a history of its own, within   *)
(* one day.                                                                *)
(***************************************************************************)
InitFrame ==
    /\ CalcIdle
    /\ EngineIdle
    /\ today = TEST_DAY
    /\ \E h1 \in TestHistories, h2 \in TestHistories :
          scores = HistoryRows("u1", h1) (+) HistoryRows("u2", h2)

NextFrame == \E uid \in CanonicalUsers : Evaluate(uid)

SpecFrame == InitFrame /\ [][NextFrame]_vars

(***************************************************************************)
(* Claims about the score store.                                           *)
(***************************************************************************)
\* C1: after any sequence of single-user and all-user calculations the store
\* holds at most one row per (user, date), and exactly one for every pair a
\* calculation returned for.
C1_OneRowPerKey ==
    \A u \in AllIds, d \in Dates :
        /\ RowsOf(scores, u, d) <= 1
        /\ <<u, d>> \in calculated => RowsOf(scores, u, d) = 1

\* a recalculation has just replaced the row of an already-scored pair
C1_Witness ==
    /\ replaced >= 1
    /\ \E p \in calculated : RowsOf(scores, p[1], p[2]) = 1

\* C9: the response of calculate_all for a date counts exactly the users with
\* an event on that date, successful + failed equals their number and the
\* number of detail entries, and each of them has exactly one row for the date.
C9_CalculateAllSummary ==
    (resp.kind = "calculate_all" /\ resp.target_date.kind = "date") =>
        LET d == resp.target_date.day
            users == {k.user_id :
                        k \in {e \in EventKeys : events[e] > 0 /\ e.event_date = d}}
        IN /\ resp.successful + resp.failed = Cardinality(users)
           /\ Len(resp.details) = Cardinality(users)
           /\ {resp.details[i].user_id : i \in DOMAIN resp.details} = users
           /\ \A u \in users : RowsOf(scores, u, d) = 1
           /\ \A u \in EventUsers \ users :
                  RowsOf(scores, u, d) = 1 => <<u, d>> \in calculated

\* calculate_all answered for two users, one of them scored before
C9_Witness ==
    /\ resp.kind = "calculate_all"
    /\ resp.successful = 2
    /\ replaced = 1

HasInvalid(uids) == \E i \in DOMAIN uids : uids[i] \notin CanonicalUsers
HasValid(uids) == \E i \in DOMAIN uids : uids[i] \in CanonicalUsers

Evaluated(u) ==
    \/ done["demand"].status = 200 /\ done["demand"].user = u
    \/ \E i \in DOMAIN results : results[i].user_id = u

\* the rows of u, most recent first, as the engine's window holds them
Trailing(u, n) == Recent(scores, u, n)

NotificationsOf(u, type) ==
    LET Is(r) == r.user_id = u /\ r.notification_type = type
    IN Count(notifications, Is)

NotificationsWith(u, type, action) ==
    LET Is(r) == r.user_id = u /\ r.notification_type = type
                    /\ r.action_type = action
    IN Count(notifications, Is)

CareInterventionsOf(u) ==
    LET Is(r) == r.user_id = u /\ r.trigger_reason = "consecutive_needs_care"
                    /\ r.intervention_type = "automated_call_schedule"
                    /\ r.priority = "high"
    IN Count(interventions, Is)

InterventionsOf(u) ==
    LET Is(r) == r.user_id = u IN Count(interventions, Is)

\* C4: once a user whose two most recent days are NeedsCare is evaluated there
\* is exactly one high-priority automated_call_schedule intervention with
\* reason consecutive_needs_care and exactly one consecutive_needs_care
\* notification; a user whose most recent day alone is NeedsCare has neither.
C4_ConsecutiveNeedsCare ==
    LET h == Trailing("u1", 2)
        latest == Len(h) >= 1 /\ h[1].momentum_state = "NeedsCare"
        before == Len(h) >= 2 /\ h[2].momentum_state = "NeedsCare"
    IN /\ (Evaluated("u1") /\ latest /\ before) =>
              /\ CareInterventionsOf("u1") = 1
              /\ InterventionsOf("u1") = 1
              /\ NotificationsOf("u1", "consecutive_needs_care") = 1
       /\ (latest /\ ~before) =>
              /\ InterventionsOf("u1") = 0
              /\ NotificationsOf("u1", "consecutive_needs_care") = 0

\* evaluated, latest two days NeedsCare after a Steady day, records written
C4_Witness ==
    LET h == Trailing("u1", 3)
    IN /\ Evaluated("u1")
       /\ Len(h) = 3
       /\ h[1].momentum_state = "NeedsCare"
       /\ h[2].momentum_state = "NeedsCare"
       /\ h[3].momentum_state = "Steady"
       /\ CareInterventionsOf("u1") = 1

\* C5: once a user whose final score fell by at least 20 points over the
\* trailing 3 days is evaluated there is a score_drop notification with action
\* complete_lesson; a fall of only 10 points over that window gives none.
C5_ScoreDrop ==
    LET h == Trailing("u1", 3)
        fall == h[3].final_score - h[1].final_score
    IN Len(h) = 3 =>
          /\ (Evaluated("u1") /\ fall >= 20) =>
                 /\ NotificationsWith("u1", "score_drop", "complete_lesson") = 1
                 /\ NotificationsOf("u1", "score_drop") = 1
          /\ fall = 10 => NotificationsOf("u1", "score_drop") = 0

\* evaluated with a fall of exactly 20 points, notification written
C5_Witness ==
    LET h == Trailing("u1", 3)
    IN /\ Evaluated("u1")
       /\ Len(h) = 3
       /\ h[3].final_score - h[1].final_score = 20
       /\ NotificationsOf("u1", "score_drop") = 1

RisingDays(h) == Cardinality({i \in DOMAIN h : h[i].momentum_state = "Rising"})

\* C6: a celebration notification (action view_momentum) exists only if at
\* least 4 of the trailing 5 days are Rising and the most recent day is Rising;
\* with 4 of 5 Rising and another most recent state there is none.
C6_CelebrationOnlyIfRisingNow ==
    LET h == Trailing("u1", 5)
    IN /\ NotificationsOf("u1", "celebration") > 0 =>
              /\ RisingDays(h) >= 4
              /\ h[1].momentum_state = "Rising"
              /\ NotificationsWith("u1", "celebration", "view_momentum")
                     = NotificationsOf("u1", "celebration")
       /\ (RisingDays(h) >= 4 /\ h[1].momentum_state # "Rising") =>
              NotificationsOf("u1", "celebration") = 0

\* evaluated with 4 of 5 days Rising and today Steady: nothing to celebrate
C6_Witness ==
    LET h == Trailing("u1", 5)
    IN /\ Evaluated("u1")
       /\ RisingDays(h) = 4
       /\ h[1].momentum_state = "Steady"
       /\ NotificationsOf("u1", "celebration") = 0

StateChanges(h) ==
    Cardinality({i \in 1..(Len(h) - 1) : h[i].momentum_state # h[i + 1].momentum_state})

RecordsOf(u) ==
    LET IsN(r) == r.user_id = u
    IN Count(notifications, IsN) + Count(interventions, IsN)

\* C8: evaluating an id that is malformed, or a well-formed id without score
\* rows, succeeds with zero interventions triggered and writes no record; an
\* all-users evaluation returns one result for every user with a score today,
\* the malformed one with zero triggered.
C8_InvalidUserIsNoOp ==
    /\ \A u \in {"invalid-uuid", "u2"} :
          /\ RecordsOf(u) = 0
          /\ (done["demand"].status = 200 /\ done["demand"].user = u) =>
                 /\ done["demand"].success
                 /\ done["demand"].interventions_triggered = 0
    /\ results # <<>> =>
          /\ {results[i].user_id : i \in DOMAIN results}
                 = {r.user_id : r \in {x \in DOMAIN scores : x.score_date = today}}
          /\ Len(results) = Cardinality({results[i].user_id : i \in DOMAIN results})
          /\ \A i \in DOMAIN results :
                results[i].user_id = "invalid-uuid" =>
                    results[i].interventions_triggered = 0

\* an all-users run over a NeedsCare user and the malformed id: two results,
\* the valid user's rules fired
C8_Witness ==
    /\ Len(results) = 2
    /\ \E i \in DOMAIN results :
          results[i].user_id = "u1" /\ results[i].interventions_triggered > 0
    /\ done["demand"].user = "invalid-uuid"
    /\ done["demand"].status = 200

(***************************************************************************)
(* Claims about rate limiting.                                             *)
(***************************************************************************)
NotificationsIn(u, type, w) ==
    LET Is(r) == r.user_id = u /\ r.notification_type = type /\ r.trigger_date = w
    IN Count(notifications, Is)

InterventionsIn(u, w) ==
    LET Is(r) == r.user_id = u /\ r.trigger_date = w IN Count(interventions, Is)

Windows == TEST_DAY..(TEST_DAY + MaxTicks)
RuleSet == {Rules[i] : i \in DOMAIN Rules}

\* C2: however often rules are evaluated for a user within one day, that day
\* holds at most one notification of each rule's type and at most one
\* intervention.
C2_OnePerRulePerWindow ==
    \A w \in Windows :
        /\ \A r \in RuleSet : NotificationsIn("u1", r, w) <= 1
        /\ InterventionsIn("u1", w) <= 1

\* a repeated on-demand evaluation in the window of the first found its rule
\* taken and triggered nothing
C2_Witness ==
    /\ pc["demand"] = "idle"
    /\ done["demand"].status = 200
    /\ done["demand"].win = today
    /\ done["demand"].matched # <<>>
    /\ done["demand"].interventions_triggered = 0
    /\ \A i \in DOMAIN done["demand"].matched :
          NotificationsIn("u1", done["demand"].matched[i], today) = 1

\* C3: when the evaluation started by the trigger and an on-demand evaluation
\* of the same user, day and matching rules have both returned, the records
\* are those of one evaluation: one notification per matched rule, one
\* intervention if consecutive_needs_care matched, and the two evaluations
\* together triggered no more than one evaluation would.
C3_TriggerAndDemandConverge ==
    LET d == done["demand"]
        t == done["trigger"]
        m == {d.matched[i] : i \in DOMAIN d.matched}
    IN (/\ \A p \in Procs : pc[p] = "idle"
        /\ d.status = 200 /\ t.status = 200
        /\ d.user = t.user /\ d.win = t.win /\ d.matched = t.matched) =>
           /\ \A r \in m : NotificationsIn(d.user, r, d.win) = 1
           /\ "consecutive_needs_care" \in m => InterventionsIn(d.user, d.win) = 1
           /\ d.interventions_triggered + t.interventions_triggered <= Cardinality(m)

\* both have returned for the same day and rules, each having emitted a rule
C3_Witness ==
    LET d == done["demand"]
        t == done["trigger"]
    IN /\ \A p \in Procs : pc[p] = "idle"
       /\ d.status = 200 /\ t.status = 200
       /\ d.user = t.user /\ d.win = t.win /\ d.matched = t.matched
       /\ d.interventions_triggered >= 1
       /\ t.interventions_triggered >= 1

(***************************************************************************)
(* Claims about _calc_score as a function.                                 *)
(***************************************************************************)
Scored == calc_out # NoOut

\* the events of the call, by type, and what the breakdown reports for a type
EventsOfType(et) == ByType(events, CalcUser, TEST_DAY, et)
ReportedCount(et) ==
    IF et \in DOMAIN calc_out.breakdown.events_by_type
    THEN calc_out.breakdown.events_by_type[et] ELSE 0
ReportedPoints(et) ==
    IF et \in DOMAIN calc_out.breakdown.points_by_type
    THEN calc_out.breakdown.points_by_type[et] ELSE 0

\* the sum over the types of weight * min(n, 5)
CappedTotal ==
    SumOver([et \in DOMAIN EVENT_POINTS |->
                EVENT_POINTS[et] * Min(EventsOfType(et), 5)], DOMAIN EVENT_POINTS)

\* the rows stored before the call (the call replaces only the target day's)
PriorCount == Count(scores, LAMBDA r : r.user_id = CalcUser /\ r.score_date < TEST_DAY)
YdayStates ==
    {r.momentum_state :
        r \in {x \in DOMAIN scores :
                  x.user_id = CalcUser /\ x.score_date = TEST_DAY - 1}}

\* C11: a type with n events on the day contributes weight * min(n, 5)
\* points, while the per-type count and events_count report the true numbers.
C11_PerTypeCap ==
    Scored =>
        /\ \A et \in DOMAIN EVENT_POINTS :
              /\ ReportedPoints(et) = EVENT_POINTS[et] * Min(EventsOfType(et), 5)
              /\ ReportedCount(et) = EventsOfType(et)
        /\ calc_out.row.events_count = TotalEvents(events)
        /\ calc_out.breakdown.total_events = TotalEvents(events)

\* six events of one type have been scored
C11_Witness ==
    /\ Scored
    /\ \E et \in DOMAIN EVENT_POINTS :
          EventsOfType(et) = 6 /\ ReportedPoints(et) = 5 * EVENT_POINTS[et]

\* C12: raw_score is the capped point total clamped at 100.
C12_RawClamp ==
    Scored =>
        /\ CappedTotal >= 100 => calc_out.row.raw_score = 100
        /\ CappedTotal < 100 => calc_out.row.raw_score = CappedTotal

\* a total above 100 has been clamped
C12_Witness == Scored /\ CappedTotal > 100 /\ calc_out.row.raw_score = 100

\* C13: the row the calculator writes has raw, normalized and final score
\* within [0, 100].
C13_ScoresInRange ==
    Scored =>
        /\ calc_out.row \in DOMAIN scores
        /\ \A f \in {"raw_score", "normalized_score", "final_score"} :
              calc_out.row[f] \in 0..100

\* raw score plus history bonus exceeded 100 and the final score is 100
C13_Witness ==
    /\ Scored
    /\ calc_out.row.raw_score + 5 * PriorCount > 100
    /\ calc_out.row.final_score = 100

\* C14 as claimed: with no event on the target date the row has raw_score 0
\* and state NeedsCare, whatever history is stored.
C14_ZeroEventsNeedsCare ==
    (Scored /\ TotalEvents(events) = 0) =>
        /\ calc_out.row.raw_score = 0
        /\ calc_out.row.momentum_state = "NeedsCare"

\* the threshold class of a final score
ThresholdClass(final) ==
    IF final >= 70 THEN "Rising" ELSE IF final >= 45 THEN "Steady" ELSE "NeedsCare"

\* C15: without a row for the day before, the state is the threshold class
\* of the final score, the boundaries 70 and 45 falling in the upper class.
C15_ThresholdClass ==
    (Scored /\ YdayStates = {}) =>
        calc_out.row.momentum_state = ThresholdClass(calc_out.row.final_score)

\* a final score on a boundary, without a row for the day before
C15_Witness ==
    /\ Scored
    /\ YdayStates = {}
    /\ \/ calc_out.row.final_score = 70 /\ calc_out.row.momentum_state = "Rising"
       \/ calc_out.row.final_score = 45 /\ calc_out.row.momentum_state = "Steady"

\* C16: after a Rising day a final score in [68, 70) keeps Rising, a final
\* score below 68 does not.
C16_RisingHysteresis ==
    (Scored /\ YdayStates = {"Rising"}) =>
        /\ calc_out.row.final_score \in 68..69 =>
              calc_out.row.momentum_state = "Rising"
        /\ calc_out.row.final_score < 68 =>
              calc_out.row.momentum_state # "Rising"

\* Rising was kept at a final score of 68 or 69
C16_Witness ==
    /\ Scored
    /\ YdayStates = {"Rising"}
    /\ calc_out.row.final_score \in 68..69
    /\ calc_out.row.momentum_state = "Rising"

\* C17 as claimed: after a Steady day a final score in [43, 45) keeps Steady.
C17_SteadyHysteresis ==
    (Scored /\ YdayStates = {"Steady"} /\ calc_out.row.final_score \in 43..44) =>
        calc_out.row.momentum_state = "Steady"

C19_SafeCalculateStructured ==
    [][\A uid \in AllIds, t \in TargetInputs :
          SafeCalculate(uid, t) =>
              LET out == cursor'.rows[1]
              IN /\ cursor'.error = ""
                 /\ IF uid \notin CanonicalUsers
                    THEN ~out.success /\ out.error_code = "INVALID_USER_ID"
                    ELSE IF t.kind # "date"
                    THEN ~out.success /\ out.error_code = "INVALID_DATE"
                    ELSE out.success /\ out.user_id = uid]_vars

\* an insert the gate has to refuse on its values
BadValues(p) ==
    \/ p.raw < 0
    \/ p.norm < 0 \/ p.norm > 100
    \/ p.state \notin States

\* C20: an insert with a negative raw score, a normalized score outside
\* [0, 100] or an unknown state raises, and the stored rows are as before.
C20_BadInsertRejected ==
    [][\/ cursor'.error # "" /\ daily_scores' = daily_scores
       \/ \A p \in ScoreParams, returning \in BOOLEAN :
             BadValues(p) => ~InsertDailyScore(p, returning)]_vars

\* an insert was refused while rows are stored
C20_Witness ==
    /\ cursor.error = "invalid scores"
    /\ DOMAIN daily_scores # {}

\* C21: a direct insert for a (user, date) that already has a row raises,
\* also when its values are valid, and the stored row keeps its id.
C21_DuplicateInsertRejected ==
    [][\/ cursor'.error # "" /\ daily_scores' = daily_scores
       \/ \A p \in ScoreParams, returning \in BOOLEAN :
             (~BadValues(p) /\ <<p.uid, p.sdate>> \in DOMAIN daily_scores)
                 => ~InsertDailyScore(p, returning)]_vars

\* an insert was refused while every (user, date) has its row: whatever its
\* values, it was an insert for a key that has one
C21_Witness ==
    /\ cursor.error = "invalid scores"
    /\ DOMAIN daily_scores = CanonicalUsers \X Dates

(***************************************************************************)
(* Claims about the error log.                                             *)
(***************************************************************************)
\* C22: log_momentum_error adds one unresolved entry under a new id and
\* returns that id; resolve_momentum_error for a logged id marks the entry
\* resolved with the time and the notes given and returns success; for an id
\* that is not logged it returns failure and changes no entry.
C22_LogAndResolve ==
    [][/\ \A p \in LogParams :
             LogError(p) =>
                 LET id == cursor'.rows[1].error_id
                 IN /\ id \notin DOMAIN error_logs
                    /\ DOMAIN error_logs' = DOMAIN error_logs \cup {id}
                    /\ ~error_logs'[id].is_resolved
                    /\ \A k \in DOMAIN error_logs : error_logs'[k] = error_logs[k]
       /\ \A p \in ResolveParams :
             ResolveError(p) =>
                 IF Len(p) > 0 /\ p[1] \in DOMAIN error_logs
                 THEN /\ cursor'.rows[1].success
                      /\ DOMAIN error_logs' = DOMAIN error_logs
                      /\ error_logs'[p[1]].is_resolved
                      /\ error_logs'[p[1]].resolved_at = now
                      /\ error_logs'[p[1]].resolution_notes =
                            (IF Len(p) > 1 THEN p[2] ELSE NoneVal)
                      /\ \A k \in DOMAIN error_logs \ {p[1]} :
                            error_logs'[k] = error_logs[k]
                 ELSE /\ ~cursor'.rows[1].success
                      /\ error_logs' = error_logs]_vars

\* an entry logged on an earlier day was resolved with notes, and the last
\* statement was a resolve
C22_Witness ==
    /\ cursor.rows = <<[success |-> TRUE]>>
    /\ \E k \in DOMAIN error_logs :
          /\ error_logs[k].is_resolved
          /\ error_logs[k].resolution_notes = "fixed"
          /\ error_logs[k].resolved_at > error_logs[k].created_at

\* a resolved entry older than the retention period
Expired(e) == e.is_resolved /\ now - e.created_at > RETENTION_DAYS

\* C23 as claimed: cleanup_error_logs removes exactly the resolved entries
\* older than the retention period and returns the number it removed;
\* unresolved entries and younger resolved entries remain.
C23_CleanupOnlyExpired ==
    [][CleanupErrorLogs =>
          /\ error_logs' =
                [k \in {j \in DOMAIN error_logs : ~Expired(error_logs[j])} |->
                    error_logs[k]]
          /\ cursor'.rows[1].deleted_count =
                Cardinality(DOMAIN error_logs \ DOMAIN error_logs')]_vars

(***************************************************************************)
(* Claims about the backfill script.                                       *)
(***************************************************************************)
\* the rows process_day has inserted so far
BackfillRows == {u \in bf.missing_before : RowsOf(scores, u, TEST_DAY) > 0}

\* C25 as claimed: when a non-dry-run process_day has returned, every user
\* that had no row for the day has a default row for it, and the number
\* returned is the number of rows inserted.
C25_BackfillCompletes ==
    (bf.pc = "done" /\ ~bf.dry_run) =>
        /\ \A u \in bf.missing_before :
              BagIn(DefaultRow(u, TEST_DAY), scores)
        /\ bf.returned = Cardinality(BackfillRows)

\* C30: a non-dry-run process_day returns; a turn of its loop is the last
\* exactly when it inserted fewer than batch_size rows.
C30_ProcessDayTerminates ==
    /\ [][BatchStep => ((bf'.pc = "done") <=> (bf'.inserted < bf.batch_size))]_vars
    /\ (bf.pc = "loop") ~> (bf.pc = "done")

\* process_day has returned after more than one turn of its loop
C30_Witness ==
    /\ bf.pc = "done"
    /\ ~bf.dry_run
    /\ bf.offset > 0

C27_ConcurrentOneRow ==
    (\A w \in WorkerIds : workers[w].pc = "done") =>
        RowsOf(scores, CalcUser, TEST_DAY) = 1

(***************************************************************************)
(* Claims about recalculation.                                             *)
(***************************************************************************)
\* the table as it has to be after the last calculation: the rows of other
\* keys, and the row that calculation returned
TableAfterCalc ==
    LET OtherKey(r) == ~(r.user_id = CalcUser /\ r.score_date = TEST_DAY)
    IN Select(scores, OtherKey) (+) SetToBag({calc_out.row})

\* C24: an evaluation that starts after a calculation of the user's day has
\* returned decides on the row that calculation wrote: the rules that match
\* are those of the history in which the day's row is the new one, and no
\* row the calculation replaced is read.
C24_EvaluationReadsNewRow ==
    [][(Scored /\ Evaluate(CalcUser)) =>
          done'["demand"].matched =
              Matched(Recent(TableAfterCalc, CalcUser, CONSISTENCY_DAYS))]_vars

\* the day was calculated with no events over a NeedsCare day before it, and
\* an evaluation has matched the two NeedsCare days
C24_Witness ==
    /\ Scored
    /\ calc_out.row.momentum_state = "NeedsCare"
    /\ BagIn(calc_out.row, scores)
    /\ done["demand"].status = 200
    /\ \E i \in DOMAIN done["demand"].matched :
          done["demand"].matched[i] = "consecutive_needs_care"

\* C29: a second calculation of the day, with the day's events as the first
\* one saw them and the earlier rows untouched, returns the raw score, the
\* final score and the state of the first, whatever row the day and the day
\* after have.
C29_RecalculationSame ==
    [][(/\ Scored
        /\ calc_out.breakdown = Breakdown(events, CalcUser, TEST_DAY)
        /\ Calculate) =>
          /\ calc_out'.row.raw_score = calc_out.row.raw_score
          /\ calc_out'.row.final_score = calc_out.row.final_score
          /\ calc_out'.row.momentum_state = calc_out.row.momentum_state]_vars

\* the day has been calculated from its present events while a row of the
\* day after is stored: a second calculation is at hand
C29_Witness ==
    /\ Scored
    /\ calc_out.breakdown = Breakdown(events, CalcUser, TEST_DAY)
    /\ TotalEvents(events) > 0
    /\ BagIn(LaterRow, scores)
    /\ RowsOf(scores, CalcUser, TEST_DAY) = 1

(***************************************************************************)
(* Claims about the reach of a rate-limit entry.                           *)
(***************************************************************************)
\* C28: a rate-limit entry of one user and one rule holds back that rule for
\* that user only: after an evaluation of a user, every rule the user's
\* history matches has its one notification for the user in the window,
\* whatever other rules have fired for the user and whatever has fired for
\* the other user.
C28_LimitPerUserAndRule ==
    LET d == done["demand"]
    IN d.status = 200 =>
          \A i \in DOMAIN d.matched :
              NotificationsIn(d.user, d.matched[i], d.win) = 1

\* one rule has fired for both users and a second rule for the first
C28_Witness ==
    \E r1 \in RuleSet, r2 \in RuleSet :
        /\ r1 # r2
        /\ NotificationsIn("u1", r1, today) = 1
        /\ NotificationsIn("u1", r2, today) = 1
        /\ NotificationsIn("u2", r1, today) = 1
        /\ LimitKey("u1", r1, today) \in rate_limits

=============================================================================
